---- MODULE Spec2Model ----
(***************************************************************************)
(* Model of the book-project verification pipeline (Next.js API routes):   *)
(*   lib/store.ts   - in-memory job / uploaded-file registry               *)
(*   lib/cache.ts   - ResultCache (ISBN cache, holding cache, statistics)  *)
(*   lib/aladin.ts  - searchISBNByTitleAuthor (resolver client)            *)
(*   lib/read365.ts - searchISBN* / findSchoolBooks (catalog client)       *)
(*   api/verify/[fileId]/route.ts - POST + processVerification (job loop)  *)
(*   api/status/[jobId]/route.ts  - GET / DELETE of one job                *)
(*   api/jobs/route.ts            - job listing                            *)
(*                                                                         *)
(* Text is a sequence of one-character strings; a message built from a     *)
(* template literal is a sequence of tokens.  null is the value NULL.      *)
(* JavaScript runs each handler to its next await without interruption, so *)
(* one action is one such synchronous segment.  Timestamps (createdAt,     *)
(* updatedAt) are not modelled.                                            *)
(***************************************************************************)
EXTENDS Integers, Sequences, FiniteSets, TLC

\* ------------------------------------------------------------------ bounds
\* largest number of rows of the uploaded sheet
MaxRows == 2

\* ------------------------------------------------------------------ text
NULL == <<"<null>">>

\* JavaScript truthiness of a string-or-null value
Truthy(s) == s # NULL /\ s # <<>>

\* the characters matched by \s
Whitespace == {" "}

\* String.prototype.toLowerCase on one character
toLowerCase(c) ==
  CASE c = "A" -> "a"
    [] c = "B" -> "b"
    [] c = "K" -> "k"
    [] c = "S" -> "s"
    [] c = "T" -> "t"
    [] OTHER -> c

\* text.replace(/\s/g, '').toLowerCase() (the order of the two is immaterial)
RECURSIVE StripLower(_)
StripLower(text) ==
  IF text = <<>> THEN <<>>
  ELSE IF Head(text) \in Whitespace THEN StripLower(Tail(text))
       ELSE <<toLowerCase(Head(text))>> \o StripLower(Tail(text))

\* String.prototype.includes
includes(s, t) ==
  \E k \in 0..(Len(s) - Len(t)) : SubSeq(s, k + 1, k + Len(t)) = t

\* String.prototype.slice(0, n)
slice0(s, n) == SubSeq(s, 1, IF Len(s) < n THEN Len(s) ELSE n)

\* ------------------------------------------------------------------ cache.ts
\* a key that keeps the text as it is
normalizeKeyVerbatim(text) == text

normalizeKey(text) == StripLower(text)

makeISBNKey(title, author) == normalizeKey(title) \o <<"|">> \o normalizeKey(author)

makeSearchKey(school, isbn) == normalizeKey(school) \o <<"|">> \o isbn

\* a Map.set on a map kept as a function
MapSet(m, k, v) == (k :> v) @@ m

EmptyMap == [k \in {} |-> NULL]

NewStats ==
  [isbnHits |-> 0, isbnMisses |-> 0, searchHits |-> 0, searchMisses |-> 0,
   isbnCacheSize |-> 0, searchCacheSize |-> 0]

NewCache == [isbnCache |-> EmptyMap, searchCache |-> EmptyMap, stats |-> NewStats]

\* getISBN: the entry (hit = FALSE for null) and the cache with its counters moved
getISBN(c, title, author) ==
  LET key == makeISBNKey(title, author) IN
  IF key \in DOMAIN c.isbnCache
  THEN [hit |-> TRUE, result |-> c.isbnCache[key],
        cache |-> [c EXCEPT !.stats.isbnHits = @ + 1]]
  ELSE [hit |-> FALSE, result |-> [isbn13 |-> NULL, error |-> NULL],
        cache |-> [c EXCEPT !.stats.isbnMisses = @ + 1]]

\* a set that leaves the size counter as it was
setISBNStaleSize(c, title, author, isbn13, error) ==
  [c EXCEPT !.isbnCache = MapSet(@, makeISBNKey(title, author),
                                 [isbn13 |-> isbn13, error |-> error])]

setISBN(c, title, author, isbn13, error) ==
  LET m == MapSet(c.isbnCache, makeISBNKey(title, author),
                  [isbn13 |-> isbn13, error |-> error]) IN
  [c EXCEPT !.isbnCache = m, !.stats.isbnCacheSize = Cardinality(DOMAIN m)]

NoSearchResult == [exists |-> FALSE, itemCount |-> 0, matchedSchool |-> NULL, error |-> NULL]

getSearch(c, school, isbn) ==
  LET key == makeSearchKey(school, isbn) IN
  IF key \in DOMAIN c.searchCache
  THEN [hit |-> TRUE, result |-> c.searchCache[key],
        cache |-> [c EXCEPT !.stats.searchHits = @ + 1]]
  ELSE [hit |-> FALSE, result |-> NoSearchResult,
        cache |-> [c EXCEPT !.stats.searchMisses = @ + 1]]

\* a set that keeps only the newest entry of the holding map
setSearchEvicting(c, school, isbn, exists, itemCount, matchedSchool, error) ==
  [c EXCEPT !.searchCache = MapSet(EmptyMap, makeSearchKey(school, isbn),
                                   [exists |-> exists, itemCount |-> itemCount,
                                    matchedSchool |-> matchedSchool, error |-> error]),
            !.stats.searchCacheSize = 1]

setSearch(c, school, isbn, exists, itemCount, matchedSchool, error) ==
  LET m == MapSet(c.searchCache, makeSearchKey(school, isbn),
                  [exists |-> exists, itemCount |-> itemCount,
                   matchedSchool |-> matchedSchool, error |-> error]) IN
  [c EXCEPT !.searchCache = m, !.stats.searchCacheSize = Cardinality(DOMAIN m)]

\* getStats: a copy of the counters
getStats(c) == c.stats

\* clear: both maps emptied, the counters replaced by zeros
clear(c) == [isbnCache |-> EmptyMap, searchCache |-> EmptyMap, stats |-> NewStats]

\* ------------------------------------------------------------------ aladin.ts
\* String.prototype.trim
RECURSIVE trimStart(_)
trimStart(s) ==
  IF s # <<>> /\ Head(s) \in Whitespace THEN trimStart(Tail(s)) ELSE s

RECURSIVE trimEnd(_)
trimEnd(s) ==
  IF s # <<>> /\ s[Len(s)] \in Whitespace THEN trimEnd(SubSeq(s, 1, Len(s) - 1)) ELSE s

trim(s) == trimEnd(trimStart(s))

\* x || '' for a string-or-null x
OrEmpty(x) == IF Truthy(x) THEN x ELSE <<>>

\* the similarity threshold the job loop passes (0.6), in units of 1/10000
Threshold == 6000

\* the score before it is compared: -1
InitialBestScore == -1

\* a score that counts the author similarity whatever the query author is
ItemScoreAuthorAlways(item, needleAuthor) ==
  70 * item.titleRatio + 30 * item.authorRatio

\* An item of the resolver's response.  Fuzzball.token_set_ratio is a library
\* call; titleRatio and authorRatio are the values (0..100) it returns for this
\* item's title and author against the query.
\* score = 0.7 * titleScore + 0.3 * authorScore, in units of 1/10000
ItemScore(item, needleAuthor) ==
  70 * item.titleRatio + 30 * (IF needleAuthor # <<>> THEN item.authorRatio ELSE 0)

\* a loop that keeps the last of equal scores
RECURSIVE BestFromLast(_, _, _, _)
BestFromLast(items, needleAuthor, best, bestScore) ==
  IF items = <<>> THEN [best |-> best, bestScore |-> bestScore]
  ELSE LET score == ItemScore(Head(items), needleAuthor) IN
       IF score >= bestScore
       THEN BestFromLast(Tail(items), needleAuthor, Head(items), score)
       ELSE BestFromLast(Tail(items), needleAuthor, best, bestScore)

\* the for loop over items: strict > keeps the first of equal scores
RECURSIVE BestFrom(_, _, _, _)
BestFrom(items, needleAuthor, best, bestScore) ==
  IF items = <<>> THEN [best |-> best, bestScore |-> bestScore]
  ELSE LET score == ItemScore(Head(items), needleAuthor) IN
       IF score > bestScore
       THEN BestFrom(Tail(items), needleAuthor, Head(items), score)
       ELSE BestFrom(Tail(items), needleAuthor, best, bestScore)

NoItem == [titleRatio |-> 0, authorRatio |-> 0, isbn13 |-> NULL]

\* bestScore.toFixed(2), as a number of hundredths
toFixed2(score) == (score + 50) \div 100

ErrEmptyTitle == <<"empty title">>
ErrNoResults == <<"no search results">>
ErrIsbnEmpty == <<"isbn empty">>
ErrBelowThreshold(score) == <<"similarity below threshold(", ToString(toFixed2(score)), ")">>

\* no early return for a blank title
EarlyReturnNever(title) == FALSE

\* searchISBNByTitleAuthor before its fetch: the result it returns at once
EarlyReturn(title) == ~Truthy(title)

EarlyResult == [isbn13 |-> NULL, error |-> ErrEmptyTitle, candidateCount |-> 0]

\* a selection that ignores the threshold
ResolveItemsAnyScore(items, author, threshold) ==
  IF Len(items) = 0
  THEN [isbn13 |-> NULL, error |-> ErrNoResults, candidateCount |-> 0]
  ELSE LET b == BestFrom(items, trim(OrEmpty(author)), NoItem, InitialBestScore)
           isbn13 == trim(OrEmpty(b.best.isbn13))
       IN IF Truthy(isbn13)
          THEN [isbn13 |-> isbn13, error |-> NULL, candidateCount |-> Len(items)]
          ELSE [isbn13 |-> NULL, error |-> ErrIsbnEmpty, candidateCount |-> Len(items)]

\* searchISBNByTitleAuthor after a successful fetch of items
ResolveItems(items, author, threshold) ==
  IF Len(items) = 0
  THEN [isbn13 |-> NULL, error |-> ErrNoResults, candidateCount |-> 0]
  ELSE LET needleAuthor == trim(OrEmpty(author))
           b == BestFrom(items, needleAuthor, NoItem, InitialBestScore)
           isbn13 == trim(OrEmpty(b.best.isbn13))
       IN IF b.bestScore >= threshold
          THEN IF Truthy(isbn13)
               THEN [isbn13 |-> isbn13, error |-> NULL, candidateCount |-> Len(items)]
               ELSE [isbn13 |-> NULL, error |-> ErrIsbnEmpty, candidateCount |-> Len(items)]
          ELSE [isbn13 |-> NULL, error |-> ErrBelowThreshold(b.bestScore),
                candidateCount |-> Len(items)]

\* searchISBNByTitleAuthor when its fetch answers with items (it does not throw)
searchISBNByTitleAuthor(title, author, items, threshold) ==
  IF EarlyReturn(title) THEN EarlyResult ELSE ResolveItems(items, author, threshold)

\* ------------------------------------------------------------------ read365.ts
MAJOR_REGION_CODES ==
  <<"B10", "C10", "D10", "E10", "F10", "G10", "H10", "I10",
    "J10", "K10", "M10", "N10", "P10", "Q10", "R10", "S10", "T10">>

\* REGION_CODE_MAP, on the region names the model submits
getProvCode(regionName) ==
  CASE regionName = <<"Seoul">> -> <<"B10">>
    [] regionName = <<"Gyeonggi">> -> <<"J10">>
    [] regionName = <<"Jeju">> -> <<"T10">>
    [] OTHER -> NULL

\* the default of maxRegions
DefaultMaxRegions == 6

\* One response of the catalog service: kind "throw" is a transport failure (fetch
\* rejects), "http" an answer with a non-2xx status, "notok" a 2xx answer whose
\* status field is not OK, "ok" an answer with data.
EmptyPage == [kind |-> "ok", totalPage |-> 0, bookList |-> <<>>]

\* what the service holds for a region: its pages in order, nothing after them
PageOf(pages, page) == IF page \in 1..Len(pages) THEN pages[page] ELSE EmptyPage

\* searchISBN: one paged request
searchISBN(pages, page) ==
  LET r == PageOf(pages, page) IN
  IF r.kind \in {"throw", "http"} THEN [threw |-> TRUE, totalPages |-> 0, books |-> <<>>]
  ELSE IF r.kind = "ok"
       THEN [threw |-> FALSE, totalPages |-> r.totalPage, books |-> r.bookList]
       ELSE [threw |-> FALSE, totalPages |-> 0, books |-> <<>>]

\* a test that lets the loop go one page past the last
LastPagePastEnd(page, totalPages) == page > totalPages

\* if (page >= result.totalPages) break
LastPage(page, totalPages) == page >= totalPages

\* searchISBNAllPages: the while (true) loop from a page on; requests lists the
\* page numbers of the calls of searchISBN, in the order they are made
RECURSIVE AllPagesFrom(_, _, _)
AllPagesFrom(pages, page, allBooks) ==
  LET result == searchISBN(pages, page) IN
  IF result.threw THEN [threw |-> TRUE, books |-> <<>>, requests |-> <<page>>]
  ELSE IF Len(result.books) = 0
       THEN [threw |-> FALSE, books |-> allBooks, requests |-> <<page>>]
  ELSE IF LastPage(page, result.totalPages)
       THEN [threw |-> FALSE, books |-> allBooks \o result.books, requests |-> <<page>>]
       ELSE LET rest == AllPagesFrom(pages, page + 1, allBooks \o result.books)
            IN [rest EXCEPT !.requests = <<page>> \o @]

searchISBNAllPages(pages) == AllPagesFrom(pages, 1, <<>>)

\* the list of regions searchISBNMultiRegion builds
RECURSIVE AddMajorRegions(_, _, _)
AddMajorRegions(searchRegions, codes, maxRegions) ==
  IF codes = <<>> THEN searchRegions
  ELSE IF (\A k \in 1..Len(searchRegions) : searchRegions[k] # Head(codes))
          /\ Len(searchRegions) < maxRegions
       THEN AddMajorRegions(Append(searchRegions, Head(codes)), Tail(codes), maxRegions)
       ELSE AddMajorRegions(searchRegions, Tail(codes), maxRegions)

SearchRegions(primaryRegion, maxRegions) ==
  LET provCode == IF Truthy(primaryRegion) THEN getProvCode(primaryRegion) ELSE NULL
      first == IF Truthy(provCode) THEN <<provCode[1]>> ELSE <<>>
  IN AddMajorRegions(first, MAJOR_REGION_CODES, maxRegions)

\* a loop over searchRegions that the first failing region ends
RECURSIVE SearchRegionsAbort(_, _, _)
SearchRegionsAbort(world, regions, acc) ==
  IF regions = <<>> THEN acc
  ELSE LET r == searchISBNAllPages(world[Head(regions)])
           tried == Append(acc.attempted, Head(regions))
       IN IF r.threw THEN [acc EXCEPT !.attempted = tried]
          ELSE SearchRegionsAbort(world, Tail(regions),
                 [totalCount |-> acc.totalCount + Len(r.books),
                  books |-> acc.books \o r.books, attempted |-> tried])

\* the for loop over searchRegions: a region that throws is skipped; attempted
\* lists the regions searchISBNAllPages was called for, in the order of the calls
RECURSIVE SearchRegionsFrom(_, _, _)
SearchRegionsFrom(world, regions, acc) ==
  IF regions = <<>> THEN acc
  ELSE LET r == searchISBNAllPages(world[Head(regions)])
           tried == Append(acc.attempted, Head(regions))
       IN IF r.threw
          THEN SearchRegionsFrom(world, Tail(regions), [acc EXCEPT !.attempted = tried])
          ELSE SearchRegionsFrom(world, Tail(regions),
                 [totalCount |-> acc.totalCount + Len(r.books),
                  books |-> acc.books \o r.books, attempted |-> tried])

\* the regions of a list whose searchISBNAllPages returns rather than throws
RECURSIVE SucceededRegions(_, _)
SucceededRegions(world, regions) ==
  IF regions = <<>> THEN <<>>
  ELSE (IF searchISBNAllPages(world[Head(regions)]).threw THEN <<>> ELSE <<Head(regions)>>)
         \o SucceededRegions(world, Tail(regions))

\* searchISBNMultiRegion against a catalog that holds world[code] for each region
searchISBNMultiRegion(world, primaryRegion, maxRegions) ==
  SearchRegionsFrom(world, SearchRegions(primaryRegion, maxRegions),
                    [totalCount |-> 0, books |-> <<>>, attempted |-> <<>>])

\* a test that only looks for the query name inside the book's
SchoolMatchesOneWay(bookSchool, schoolName) ==
  includes(StripLower(bookSchool), StripLower(schoolName))

SchoolMatches(bookSchool, schoolName) ==
  LET normalizedSchool == StripLower(schoolName)
      normalizedBookSchool == StripLower(bookSchool)
  IN includes(normalizedBookSchool, normalizedSchool)
       \/ includes(normalizedSchool, normalizedBookSchool)

RECURSIVE FindFrom(_, _, _, _)
FindFrom(books, schoolName, found, matchedSchool) ==
  IF books = <<>> THEN [found |-> found, matchedSchool |-> matchedSchool]
  ELSE LET bookSchool == OrEmpty(Head(books).schoolName) IN
       IF SchoolMatches(bookSchool, schoolName)
       THEN FindFrom(Tail(books), schoolName, Append(found, Head(books)),
                     IF ~Truthy(matchedSchool) THEN bookSchool ELSE matchedSchool)
       ELSE FindFrom(Tail(books), schoolName, found, matchedSchool)

findSchoolBooks(books, schoolName) == FindFrom(books, schoolName, <<>>, NULL)

\* ------------------------------------------------------------------ the environment
\* the rows an uploaded sheet may hold (readExcelBuffer trims every cell)
Row(school, title, author) ==
  [school |-> school, title |-> title, author |-> author, publisher |-> <<"p">>]

Rows ==
  { Row(<<"s">>, <<"a", "b">>, <<"k">>),
    Row(<<"t">>, <<"A", " ", "b">>, <<"k">>),
    Row(<<"s">>, <<>>, <<>>) }

\* the rows of the sheets used where two job loops interleave: two rows with the
\* same normalized (title, author) and different schools
CoreRows ==
  { Row(<<"s">>, <<"a", "b">>, <<"k">>),
    Row(<<"t">>, <<"A", " ", "b">>, <<"k">>) }

\* sheets that may have no row
SheetsOrEmpty(rows) == UNION { [1..n -> rows] : n \in 0..MaxRows }

\* the non-empty sheets of at most MaxRows rows (upload rejects an empty sheet)
Sheets(rows) == UNION { [1..n -> rows] : n \in 1..MaxRows }

JobIdOrder == <<"j1", "j2">>

JobIds == { JobIdOrder[k] : k \in 1..Len(JobIdOrder) }

\* the region hint of a submission body: the first submission has none, the later
\* ones name a region
RegionHints(j) == IF j = JobIdOrder[1] THEN {NULL} ELSE {<<"Jeju">>}

Item(titleRatio, authorRatio, isbn13) ==
  [titleRatio |-> titleRatio, authorRatio |-> authorRatio, isbn13 |-> isbn13]

\* what a fetch of the resolver may end in: a failure (fetch rejects, or the status
\* is not ok) or the items of the answer
AladinResponses ==
  { [ok |-> FALSE, err |-> <<"Error: HTTP 500">>, items |-> <<>>],
    [ok |-> TRUE, err |-> <<>>, items |-> <<>>],
    [ok |-> TRUE, err |-> <<>>, items |-> <<Item(100, 100, <<"1">>)>>],
    [ok |-> TRUE, err |-> <<>>, items |-> <<Item(50, 50, <<"1">>)>>],
    [ok |-> TRUE, err |-> <<>>, items |-> <<Item(100, 100, <<" ">>)>>],
    [ok |-> TRUE, err |-> <<>>, items |-> <<Item(90, 0, <<"2">>), Item(90, 0, <<"1">>)>>] }

\* the answers used where two job loops interleave
CoreResponses ==
  { [ok |-> FALSE, err |-> <<"Error: HTTP 500">>, items |-> <<>>],
    [ok |-> TRUE, err |-> <<>>, items |-> <<>>],
    [ok |-> TRUE, err |-> <<>>, items |-> <<Item(100, 100, <<"1">>)>>] }

Book(schoolName) == [schoolName |-> schoolName]

OkPage(totalPage, bookList) == [kind |-> "ok", totalPage |-> totalPage, bookList |-> bookList]

ThrowPage == [kind |-> "throw", totalPage |-> 0, bookList |-> <<>>]

NotOkPage == [kind |-> "notok", totalPage |-> 0, bookList |-> <<>>]

HttpErrorPage == [kind |-> "http", totalPage |-> 0, bookList |-> <<>>]

RegionCodes == { MAJOR_REGION_CODES[k] : k \in 1..Len(MAJOR_REGION_CODES) }

\* a catalog that holds the given pages for some regions and nothing elsewhere
World(held) == [code \in RegionCodes |-> IF code \in DOMAIN held THEN held[code] ELSE <<>>]

\* what the catalog service may hold when a multi-region search runs
Read365Worlds ==
  { World(EmptyMap),
    World("B10" :> <<OkPage(1, <<Book(<<"S">>)>>)>>),
    World(("B10" :> <<NotOkPage>>)
            @@ ("C10" :> <<OkPage(2, <<Book(<<"x">>)>>), OkPage(2, <<Book(<<"x">>)>>)>>)),
    [code \in RegionCodes |-> <<ThrowPage>>],
    World(("B10" :> <<OkPage(1, <<Book(<<"S">>)>>)>>)
            @@ ("D10" :> <<OkPage(1, <<Book(<<"s", " ", "t">>)>>)>>)) }

CoreWorlds == { World("B10" :> <<OkPage(1, <<Book(<<"S">>)>>)>>) }

\* ------------------------------------------------------------------ state
VARIABLES
  uploadedFile,  \* store.ts uploadedFiles: the rows of the uploaded file
  jobObj,        \* the Job object POST allocates for each job id
  jobs,          \* store.ts jobs: the ids whose Map entry holds jobObj[id]
  pc,            \* where each job's processVerification stands
  loc,           \* the locals of each processVerification
  cache,         \* cache.ts: the ResultCache singleton
  aladinCalls,   \* history: the (title, author) of every fetch sent to the resolver
  threw,         \* history: per job, the rows whose resolver fetch failed
  resolved,      \* history: per ISBN key, the first result searchISBNByTitleAuthor returned
  lib            \* a library function called on its own: the call, its arguments, its result

vars == <<uploadedFile, jobObj, jobs, pc, loc, cache, aladinCalls, threw, resolved, lib>>

\* no library function is called on its own
NoCall == [fn |-> "none", arg |-> <<>>, ret |-> <<>>, done |-> FALSE]

NoJob ==
  [jobId |-> "", status |-> "absent", progress |-> 0, total |-> 0, message |-> <<>>,
   resultFile |-> NULL, inputData |-> <<>>, results |-> <<>>, region |-> NULL,
   schoolLevel |-> NULL]

\* i: the loop variable; isbn13, candidateCount, reason, totalCount, found: the
\* locals of the body; error and step1 record what step 1 of the body obtained and
\* how, step2 whether step 2 took the holding cache ("hit") or called the catalog
\* ("search")
NoLocals ==
  [i |-> 0, isbn13 |-> NULL, candidateCount |-> 0, reason |-> <<>>, error |-> NULL,
   step1 |-> "none", step2 |-> "none", totalCount |-> 0, found |-> <<>>,
   paged |-> <<>>, succeeded |-> 0, attempted |-> <<>>]

\* the modules as loaded: no job, empty cache
Loaded ==
  /\ jobObj = [j \in JobIds |-> NoJob]
  /\ jobs = {}
  /\ pc = [j \in JobIds |-> "unborn"]
  /\ loc = [j \in JobIds |-> NoLocals]
  /\ cache = NewCache
  /\ aladinCalls = {}
  /\ threw = [j \in JobIds |-> {}]
  /\ resolved = EmptyMap

InitWith(sheets) ==
  /\ uploadedFile \in sheets
  /\ Loaded
  /\ lib = NoCall

Init == InitWith(Sheets(CoreRows))

InitSeq == InitWith(Sheets(Rows))

\* ------------------------------------------------------------------ store.ts
getJob(jobId) == IF jobId \in jobs THEN jobObj[jobId] ELSE NoJob

\* setJob(job) for the object of job id j: jobs.set(job.jobId, job)
setJob(j) == jobs \cup {j}

deleteJob(j) == jobs \ {j}

getAllJobs == { jobObj[j] : j \in jobs }

\* ------------------------------------------------------------------ verify route
DefaultRegion == <<"Gyeonggi">>
DefaultSchoolLevel == <<"elementary">>

\* uuidv4().slice(0, 8): the next unused id
FreshJobId(j) == pc[j] = "unborn" /\ \A k \in 1..Len(JobIdOrder) :
                   JobIdOrder[k] = j => \A m \in 1..(k - 1) : pc[JobIdOrder[m]] # "unborn"

\* POST /api/verify/[fileId] up to the call of processVerification: the job is
\* created and registered
Submit(j, region) ==
  /\ FreshJobId(j)
  /\ jobObj' = [jobObj EXCEPT ![j] =
       [jobId |-> j, status |-> "running", progress |-> 0,
        total |-> Len(uploadedFile), message |-> <<"processing started...">>,
        resultFile |-> NULL, inputData |-> uploadedFile, results |-> <<>>,
        region |-> IF Truthy(region) THEN region ELSE DefaultRegion,
        schoolLevel |-> DefaultSchoolLevel]]
  /\ jobs' = setJob(j)
  /\ pc' = [pc EXCEPT ![j] = "start"]
  /\ loc' = [loc EXCEPT ![j] = NoLocals]
  /\ UNCHANGED <<lib, uploadedFile, cache, aladinCalls, threw, resolved>>

\* the value of i with which the loop test runs next
NextIndex(j) == IF pc[j] = "start" THEN 0 ELSE loc[j].i + 1

MarkFound == "O"
MarkNotFound == "X"

ProgressMessage(i, n, title) ==
  <<"processing: ", ToString(i + 1), "/", ToString(n), " - ">> \o slice0(title, 20) \o <<"...">>

Locals(i, isbn13, candidateCount, reason, error, step1) ==
  [i |-> i, isbn13 |-> isbn13, candidateCount |-> candidateCount, reason |-> reason,
   error |-> error, step1 |-> step1, step2 |-> "none", totalCount |-> 0, found |-> <<>>,
   paged |-> <<>>, succeeded |-> 0, attempted |-> <<>>]

ResultRow(row, isbn13, matchedSchool, existsMark, reason) ==
  [school |-> row.school, title |-> row.title, author |-> row.author,
   publisher |-> row.publisher, ISBN13 |-> OrEmpty(isbn13),
   searchSchool |-> IF Truthy(matchedSchool) THEN matchedSchool ELSE row.school,
   existsMark |-> existsMark, reason |-> reason]

\* a push that replaces what was written
PushReplace(results, out) == <<out>>

\* results.push(out)
Push(results, out) == Append(results, out)

\* progress counted one too far
ProgressAfterOffByOne(i) == i + 2

\* job.progress = i + 1
ProgressAfter(i) == i + 1

\* results.push(...) and the progress update of row i, then the 100 ms wait
Commit(j, i, c, l, matchedSchool, existsMark, reason) ==
  LET row == jobObj[j].inputData[i + 1] IN
  /\ jobObj' = [jobObj EXCEPT
        ![j].results = Push(@, ResultRow(row, l.isbn13, matchedSchool, existsMark, reason)),
        ![j].progress = ProgressAfter(i),
        ![j].message = ProgressMessage(i, Len(jobObj[j].inputData), row.title)]
  /\ jobs' = setJob(j)
  /\ cache' = c
  /\ loc' = [loc EXCEPT ![j] = [l EXCEPT !.reason = reason]]
  /\ pc' = [pc EXCEPT ![j] = "sleep"]

\* a step 2 that looks the row up in the catalog whether or not it has an ISBN
Step2Unguarded(j, i, c, l) ==
  LET g == getSearch(c, jobObj[j].inputData[i + 1].school, l.isbn13) IN
  IF g.hit
  THEN Commit(j, i, g.cache, [l EXCEPT !.step2 = "hit"], g.result.matchedSchool,
              IF g.result.exists THEN MarkFound ELSE MarkNotFound,
              IF Truthy(g.result.error) THEN g.result.error ELSE l.reason)
  ELSE /\ cache' = g.cache
       /\ loc' = [loc EXCEPT ![j] = l]
       /\ pc' = [pc EXCEPT ![j] = "read365"]
       /\ UNCHANGED <<jobObj, jobs>>

\* step 2 of the loop body up to its await: the holding cache, else the catalog call
Step2(j, i, c, l) ==
  IF Truthy(l.isbn13)
  THEN LET g == getSearch(c, jobObj[j].inputData[i + 1].school, l.isbn13) IN
       IF g.hit
       THEN Commit(j, i, g.cache, [l EXCEPT !.step2 = "hit"], g.result.matchedSchool,
                   IF g.result.exists THEN MarkFound ELSE MarkNotFound,
                   IF Truthy(g.result.error) THEN g.result.error ELSE l.reason)
       ELSE /\ cache' = g.cache
            /\ loc' = [loc EXCEPT ![j] = l]
            /\ pc' = [pc EXCEPT ![j] = "read365"]
            /\ UNCHANGED <<jobObj, jobs>>
  ELSE Commit(j, i, c, l, NULL, MarkNotFound, l.reason)

UnresolvedReason(error) ==
  <<"aladin isbn unresolved: ">> \o (IF Truthy(error) THEN error ELSE <<"unknown">>)

\* the loop body after searchISBNByTitleAuthor has returned result
AfterResult(j, i, c, result, step1) ==
  LET row == jobObj[j].inputData[i + 1]
      key == makeISBNKey(row.title, row.author)
  IN /\ Step2(j, i, setISBN(c, row.title, row.author, result.isbn13, result.error),
              Locals(i, result.isbn13, result.candidateCount,
                     IF ~Truthy(result.isbn13) THEN UnresolvedReason(result.error) ELSE <<>>,
                     result.error, step1))
     /\ resolved' = IF key \in DOMAIN resolved THEN resolved ELSE MapSet(resolved, key, result)

\* the body of iteration i from its top to its first await
Body(j, i) ==
  LET row == jobObj[j].inputData[i + 1]
      g == getISBN(cache, row.title, row.author)
  IN IF g.hit
     THEN /\ Step2(j, i, g.cache,
                   Locals(i, g.result.isbn13, 0,
                          IF Truthy(g.result.error) THEN g.result.error ELSE <<>>,
                          g.result.error, "hit"))
          /\ UNCHANGED <<aladinCalls, resolved>>
     ELSE IF EarlyReturn(row.title)
     THEN /\ AfterResult(j, i, g.cache, EarlyResult, "early")
          /\ UNCHANGED aladinCalls
     ELSE /\ aladinCalls' = aladinCalls \cup
                {[job |-> j, i |-> i, title |-> row.title, author |-> row.author]}
          /\ cache' = g.cache
          /\ pc' = [pc EXCEPT ![j] = "aladin"]
          /\ loc' = [loc EXCEPT ![j] = [NoLocals EXCEPT !.i = i]]
          /\ UNCHANGED <<jobObj, jobs, resolved>>

CompletedMessage(n) == <<"done! ", ToString(n), " books processed">>

\* a completion that leaves resultFile unset
ResultFileUnset(jobId) == NULL

ResultFileOf(jobId) == <<"result_", jobId>>

\* the loop is exhausted: lines 183-188
Completion(j, i) ==
  /\ jobObj' = [jobObj EXCEPT
        ![j].status = "completed",
        ![j].message = CompletedMessage(Len(jobObj[j].inputData)),
        ![j].resultFile = ResultFileOf(j)]
  /\ jobs' = setJob(j)
  /\ pc' = [pc EXCEPT ![j] = "done"]
  /\ loc' = [loc EXCEPT ![j].i = i]
  /\ UNCHANGED <<cache, aladinCalls, resolved>>

\* processVerification runs on: at its start (called by POST) or when the 100 ms
\* wait is over (i++), the loop test, then the body up to its first await or the
\* completion
Iterate(j) ==
  /\ pc[j] \in {"start", "sleep"}
  /\ IF NextIndex(j) < Len(jobObj[j].inputData)
     THEN Body(j, NextIndex(j))
     ELSE Completion(j, NextIndex(j))
  /\ UNCHANGED <<lib, uploadedFile, threw>>

AladinErrorReason(err) == <<"aladin error: ">> \o err

\* a catch that does not cache the failure
SkipCacheResolverError(c, title, author, reason) == c

\* the catch of the resolver call: cache.setISBN(title, author, null, reason)
CacheResolverError(c, title, author, reason) == setISBN(c, title, author, NULL, reason)

\* a resolver call outside any try: its failure rejects processVerification
AladinReturnUncaught(j, resp) ==
  /\ pc[j] = "aladin"
  /\ IF resp.ok
     THEN /\ AfterResult(j, loc[j].i, cache,
                         ResolveItems(resp.items, jobObj[j].inputData[loc[j].i + 1].author,
                                      Threshold), "miss")
          /\ UNCHANGED threw
     ELSE /\ jobObj' = [jobObj EXCEPT ![j].status = "failed",
                                      ![j].message = <<"error: ">> \o resp.err]
          /\ jobs' = setJob(j)
          /\ pc' = [pc EXCEPT ![j] = "failed"]
          /\ threw' = [threw EXCEPT ![j] = @ \cup {loc[j].i + 1}]
          /\ UNCHANGED <<loc, cache, resolved>>
  /\ UNCHANGED <<lib, uploadedFile, aladinCalls>>

\* the resolver's fetch settles: the rest of searchISBNByTitleAuthor, then the loop
\* body up to its next await
AladinReturn(j, resp) ==
  /\ pc[j] = "aladin"
  /\ LET i == loc[j].i
         row == jobObj[j].inputData[i + 1]
     IN IF resp.ok
        THEN /\ AfterResult(j, i, cache, ResolveItems(resp.items, row.author, Threshold),
                            "miss")
             /\ UNCHANGED threw
        ELSE LET reason == AladinErrorReason(resp.err) IN
             /\ Step2(j, i, CacheResolverError(cache, row.title, row.author, reason),
                      Locals(i, NULL, 0, reason, reason, "throw"))
             /\ threw' = [threw EXCEPT ![j] = @ \cup {i + 1}]
             /\ UNCHANGED resolved
  /\ UNCHANGED <<lib, uploadedFile, aladinCalls>>

TypeErrorLength == <<"TypeError: Cannot read properties of undefined (reading 'length')">>

Read365ErrorReason(err) == <<"read365 search error: ">> \o err

MultiMatchReason(matchedSchools) ==
  <<"same-named schools matched: ", ToString(Len(matchedSchools))>>
    \o [k \in 1..Len(matchedSchools) |-> matchedSchools[k].schoolName[1]]

NoHoldingsReason == <<"no book registered in the major regions">>

NotHeldReason(school, totalCount, candidateCount) ==
  school \o <<" does not hold it (other schools hold ", ToString(totalCount), ")">>
    \o (IF candidateCount > 1
        THEN <<" - ", ToString(candidateCount),
               " versions of the title exist, enter the title more exactly">>
        ELSE <<>>)

\* searchISBNMultiRegion(isbn13) has returned: lines 132-156 of the loop body, then
\* the push.  The call passes no region; findSchoolBooks returns no matchedSchools,
\* so reading its length throws inside the try whenever a school matched.
\* the service as the search sees it when the pages in paged have already been
\* fetched from the first region of the list
Paged(world, paged) == [world EXCEPT ![MAJOR_REGION_CODES[1]] = paged \o @]

Read365Return(j, world) ==
  /\ pc[j] = "read365"
  /\ LET i == loc[j].i
         school == jobObj[j].inputData[i + 1].school
         isbn13 == loc[j].isbn13
         r == searchISBNMultiRegion(Paged(world, loc[j].paged), NULL, DefaultMaxRegions)
         f == findSchoolBooks(r.books, school)
         exists == Len(f.found) > 0
         c1 == setSearch(cache, school, isbn13, exists, Len(f.found), f.matchedSchool, NULL)
         existsMark == IF exists THEN MarkFound ELSE MarkNotFound
         l == [loc[j] EXCEPT !.step2 = "search", !.totalCount = r.totalCount,
                             !.found = f.found, !.paged = <<>>,
                             !.succeeded =
                               Len(SucceededRegions(Paged(world, loc[j].paged), r.attempted)),
                             !.attempted = r.attempted]
     IN IF exists /\ "matchedSchools" \notin DOMAIN f
        THEN LET reason == Read365ErrorReason(TypeErrorLength) IN
             Commit(j, i, setSearch(c1, school, isbn13, FALSE, 0, NULL, reason),
                    l, f.matchedSchool, existsMark, reason)
        ELSE Commit(j, i, c1, l, f.matchedSchool, existsMark,
                    IF exists
                    THEN (IF Len(f.matchedSchools) > 1
                          THEN MultiMatchReason(f.matchedSchools) ELSE loc[j].reason)
                    ELSE IF r.totalCount = 0 THEN NoHoldingsReason
                    ELSE NotHeldReason(school, r.totalCount, loc[j].candidateCount))
  /\ UNCHANGED <<lib, uploadedFile, aladinCalls, threw, resolved>>

\* what an exception that escapes the loop body may be
LoopErrors == {<<"TypeError: unexpected">>}

\* a handler that drops the exception text
FailedMessageNoText(err) == <<"error">>

FailedMessage(err) == <<"error: ">> \o err

\* a handler that marks the job failed while its loop carries on
LoopThrowKeepsRunning(j, err) ==
  /\ pc[j] \in {"start", "sleep"}
  /\ NextIndex(j) < Len(jobObj[j].inputData)
  /\ jobObj' = [jobObj EXCEPT ![j].status = "failed", ![j].message = <<"error: ">> \o err]
  /\ jobs' = setJob(j)
  /\ UNCHANGED <<lib, uploadedFile, pc, loc, cache, aladinCalls, threw, resolved>>

\* An exception escapes the loop body (outside its two try blocks) at the top of an
\* iteration: processVerification rejects and the catch handler of POST runs.
LoopThrow(j, err) ==
  /\ pc[j] \in {"start", "sleep"}
  /\ NextIndex(j) < Len(jobObj[j].inputData)
  /\ IF getJob(j) # NoJob
     THEN /\ jobObj' = [jobObj EXCEPT ![j].status = "failed", ![j].message = FailedMessage(err)]
          /\ jobs' = setJob(j)
          /\ pc' = [pc EXCEPT ![j] = "failed"]
     ELSE /\ pc' = [pc EXCEPT ![j] = "dropped"]
          /\ UNCHANGED <<jobObj, jobs>>
  /\ loc' = [loc EXCEPT ![j] = [NoLocals EXCEPT !.i = NextIndex(j)]]
  /\ UNCHANGED <<lib, uploadedFile, cache, aladinCalls, threw, resolved>>

\* ------------------------------------------------------------------ status and jobs routes
Snapshot(job) ==
  [job_id |-> job.jobId, status |-> job.status, progress |-> job.progress,
   total |-> job.total, message |-> job.message, result_file |-> job.resultFile]

NotFound == [code |-> 404, body |-> Snapshot(NoJob)]

\* GET /api/status/[jobId]: the response
GetStatusResponse(j) ==
  IF getJob(j) = NoJob THEN NotFound ELSE [code |-> 200, body |-> Snapshot(getJob(j))]

\* GET /api/jobs: the response
ListJobsResponse == { Snapshot(job) : job \in getAllJobs }

\* a poll that writes to the job it reads
GetStatusTouching(j) ==
  /\ j \in jobs
  /\ jobObj' = [jobObj EXCEPT ![j].message = <<"polled">>]
  /\ UNCHANGED <<lib, uploadedFile, jobs, pc, loc, cache, aladinCalls, threw, resolved>>

GetStatus(j) ==
  /\ GetStatusResponse(j).code \in {200, 404}
  /\ UNCHANGED vars

ListJobs ==
  /\ ListJobsResponse \subseteq { Snapshot(jobObj[j]) : j \in JobIds }
  /\ UNCHANGED vars

\* ------------------------------------------------------------------ download route
\* the filenames a download may name: a result handle, a bare job id, an unknown id
Filenames ==
  { <<"result_", j>> : j \in JobIds } \cup { <<j>> : j \in JobIds } \cup {<<"result_", "zz">>}

\* filename.replace('result_', ''): the first occurrence is removed
RECURSIVE replaceFirst(_, _)
replaceFirst(text, token) ==
  IF text = <<>> THEN <<>>
  ELSE IF Head(text) = token THEN Tail(text)
  ELSE <<Head(text)>> \o replaceFirst(Tail(text), token)

\* the job the download route looks up
DownloadJob(filename) ==
  LET jobId == replaceFirst(filename, "result_") IN
  IF Len(jobId) = 1 /\ jobId[1] \in JobIds THEN getJob(jobId[1]) ELSE NoJob

\* a route that serves whatever outcomes a stored job has
DownloadResponseAnyStatus(filename) ==
  LET job == DownloadJob(filename) IN
  IF job = NoJob THEN [code |-> 404, rows |-> <<>>]
  ELSE [code |-> 200, rows |-> job.results]

\* GET /api/download/[filename]: the response; rows are the outcomes handed to
\* createResultExcel
DownloadResponse(filename) ==
  LET job == DownloadJob(filename) IN
  IF job = NoJob THEN [code |-> 404, rows |-> <<>>]
  ELSE IF job.status # "completed" \/ Len(job.results) = 0 THEN [code |-> 400, rows |-> <<>>]
  ELSE [code |-> 200, rows |-> job.results]

Download(filename) ==
  /\ DownloadResponse(filename).code \in {200, 400, 404}
  /\ UNCHANGED vars

\* DELETE /api/status/[jobId]
DeleteStatus(j) ==
  /\ jobs' = deleteJob(j)
  /\ UNCHANGED <<lib, uploadedFile, jobObj, pc, loc, cache, aladinCalls, threw, resolved>>

\* ------------------------------------------------------------------ specifications
Loop(j, responses, worlds) ==
  \/ Iterate(j)
  \/ \E resp \in responses : AladinReturn(j, resp)
  \/ \E world \in worlds : Read365Return(j, world)
  \/ \E err \in LoopErrors : LoopThrow(j, err)

Routes ==
  \/ \E j \in JobIds : GetStatus(j)
  \/ \E j \in JobIds : DeleteStatus(j)
  \/ ListJobs
  \/ \E filename \in Filenames : Download(filename)

\* A POST handler has registered its job and called processVerification, which has
\* not reached its first await yet: nothing else runs until it has, and POST
\* returns its response in that same synchronous run.
InPost == \E k \in JobIds : pc[k] = "start"

\* job j may take a step: no POST handler is in its synchronous run, or j's is
Runs(j) == InPost => pc[j] = "start"

\* Batches may be submitted while others run; the services answer from the core sets.
Next ==
  \/ ~InPost /\ \E j \in JobIds : \E region \in RegionHints(j) : Submit(j, region)
  \/ \E j \in JobIds : Runs(j) /\ Loop(j, CoreResponses, CoreWorlds)
  \/ ~InPost /\ Routes

Spec == Init /\ [][Next]_vars

\* no processVerification of another job is under way
Quiet(j) == \A k \in JobIds \ {j} : pc[k] \in {"unborn", "done", "failed", "dropped"}

\* Batches submitted one after another: a batch is submitted only when no other
\* runs; the services answer from the full sets.
NextSeq ==
  \/ \E j \in JobIds : \E region \in RegionHints(j) : Quiet(j) /\ Submit(j, region)
  \/ \E j \in JobIds : Runs(j) /\ Loop(j, AladinResponses, Read365Worlds)
  \/ ~InPost /\ Routes

SpecSeq == InitSeq /\ [][NextSeq]_vars

\* ------------------------------------------------------------------ library calls
\* The functions of lib/ called on their own, on arguments drawn from bounded sets:
\* lib holds the function, its arguments and, once it has returned, its result.

\* the largest number of pages a region holds, and the largest totalPage it reports
MaxPages == 3

Call(fn, args) ==
  lib \in { [fn |-> fn, arg |-> a, ret |-> <<>>, done |-> FALSE] : a \in args }

Return(fn, ret) ==
  /\ lib.fn = fn
  /\ ~lib.done
  /\ lib' = [lib EXCEPT !.ret = ret, !.done = TRUE]
  /\ UNCHANGED <<uploadedFile, jobObj, jobs, pc, loc, cache, aladinCalls, threw, resolved>>

\* the answers the catalog service may give to one paged request
PageChoices ==
  {ThrowPage, NotOkPage}
    \cup { OkPage(t, b) : t \in 0..MaxPages, b \in {<<>>, <<Book(<<"x">>)>>} }

\* what the service holds for one region: the answer to each page up to some page
PageSeqs == UNION { [1..n -> PageChoices] : n \in 0..MaxPages }

\* one request of searchISBN: the page asked for is the one held or one past it
SearchISBNArgs ==
  { [pages |-> <<r>>, page |-> p] : r \in PageChoices \cup {HttpErrorPage}, p \in 1..2 }

CallSearchISBN ==
  Return("searchISBN", searchISBN(lib.arg.pages, lib.arg.page))

CallSearchISBNAllPages ==
  Return("searchISBNAllPages", searchISBNAllPages(lib.arg))

\* the largest maxRegions passed to searchISBNMultiRegion
MaxRegions == 3

\* what the service may hold for a region: nothing, one page of one book, a failure,
\* a first page followed by a failure
RegionPages(code) ==
  { <<>>,
    <<OkPage(1, <<Book(<<code>>)>>)>>,
    <<ThrowPage>>,
    <<OkPage(2, <<Book(<<code>>)>>), ThrowPage>> }

\* the regions whose holdings vary: the first of the canonical order, and Jeju's
VariedRegions == {"B10", "C10", "D10", "T10"}

RegionWorlds ==
  { [code \in RegionCodes |-> IF code \in VariedRegions THEN h[code] ELSE <<>>] :
      h \in { g \in [VariedRegions -> UNION { RegionPages(c) : c \in VariedRegions }] :
                \A c \in VariedRegions : g[c] \in RegionPages(c) } }

\* the region names passed: none, resolvable ones, an unknown one
RegionNames == {NULL, <<"Seoul">>, <<"Jeju">>, <<"Mars">>}

MultiRegionArgs ==
  { [world |-> w, primaryRegion |-> r, maxRegions |-> n] :
      w \in RegionWorlds, r \in RegionNames, n \in 0..MaxRegions }

CallSearchISBNMultiRegion ==
  Return("searchISBNMultiRegion",
         searchISBNMultiRegion(lib.arg.world, lib.arg.primaryRegion, lib.arg.maxRegions))

\* the longest text passed to a function called on its own
MaxText == 2

Alphabet == {"a", "A", " "}

Texts == UNION { [1..n -> Alphabet] : n \in 0..MaxText }

AuthorTexts == {<<>>, <<"k">>, <<"K">>, <<" ", "k">>}

\* the entries processVerification stores: an ISBN, or none with an error
ISBNEntries ==
  { [isbn13 |-> <<"1">>, error |-> NULL], [isbn13 |-> NULL, error |-> <<"no search results">>] }

CacheISBNArgs ==
  { [title |-> t, author |-> a, title2 |-> t2, author2 |-> a2, entry |-> e] :
      t \in Texts, a \in AuthorTexts, t2 \in Texts, a2 \in AuthorTexts, e \in ISBNEntries }

\* cache.setISBN(title, author, ...) then cache.getISBN(title2, author2)
CallCacheISBN ==
  Return("cacheISBN",
         getISBN(setISBN(NewCache, lib.arg.title, lib.arg.author,
                         lib.arg.entry.isbn13, lib.arg.entry.error),
                 lib.arg.title2, lib.arg.author2))

\* components of a key, some with the separator in them
KeyTexts == {<<>>, <<"a">>, <<"A", " ">>, <<"b">>, <<"a", "|", "b">>, <<"b", "|">>, <<"|">>}

KeyArgs == { [x1 |-> a, y1 |-> b, x2 |-> c, y2 |-> d] :
               a \in KeyTexts, b \in KeyTexts, c \in KeyTexts, d \in KeyTexts }

\* makeISBNKey and makeSearchKey of two pairs of components
CallMakeKeys ==
  Return("makeKeys",
         [isbn1 |-> makeISBNKey(lib.arg.x1, lib.arg.y1),
          isbn2 |-> makeISBNKey(lib.arg.x2, lib.arg.y2),
          search1 |-> makeSearchKey(lib.arg.x1, lib.arg.y1),
          search2 |-> makeSearchKey(lib.arg.x2, lib.arg.y2)])

SearchEntries ==
  { [exists |-> TRUE, itemCount |-> 1, matchedSchool |-> <<"a">>, error |-> NULL],
    [exists |-> FALSE, itemCount |-> 0, matchedSchool |-> NULL, error |-> NULL] }

CacheSearchArgs ==
  { [school |-> t, school2 |-> t2, isbn |-> <<"1">>, entry |-> e] :
      t \in Texts, t2 \in Texts, e \in SearchEntries }

\* cache.setSearch(school, isbn, ...) then cache.getSearch(school2, isbn)
CallCacheSearch ==
  Return("cacheSearch",
         getSearch(setSearch(NewCache, lib.arg.school, lib.arg.isbn, lib.arg.entry.exists,
                             lib.arg.entry.itemCount, lib.arg.entry.matchedSchool,
                             lib.arg.entry.error),
                   lib.arg.school2, lib.arg.isbn))

\* the largest number of books passed to findSchoolBooks
MaxBooks == 3

\* the schoolName of a catalog book: names that contain one another up to case and
\* spaces, names that do not, the empty name, a missing name
BookSchoolNames ==
  {<<"a">>, <<"A", " ">>, <<"a", " ", "b">>, <<"b">>, <<>>, NULL}

QuerySchools == {<<"a">>, <<" ", "A">>, <<"a", "b">>, <<"b", "a">>, <<"a", "b", "a">>}

FindSchoolBooksArgs ==
  { [books |-> b, schoolName |-> q] :
      b \in UNION { [1..n -> { Book(x) : x \in BookSchoolNames }] : n \in 0..MaxBooks },
      q \in QuerySchools }

CallFindSchoolBooks ==
  Return("findSchoolBooks", findSchoolBooks(lib.arg.books, lib.arg.schoolName))

\* the largest number of items in an answer of the resolver
MaxItems == 2

\* the items of an answer: ratios that give scores below, at and above each other
\* (0.49, 0.70 twice, 0.91), an ISBN, one with a leading space, a blank or no ISBN
ItemChoices ==
  { Item(t, a, n) : t \in {70, 100}, a \in {0, 70},
                    n \in {<<"1">>, <<" ", "2">>, <<" ">>, NULL} }

ItemSeqs == UNION { [1..n -> ItemChoices] : n \in 0..MaxItems }

BestCandidateArgs ==
  { [items |-> x, author |-> a] : x \in ItemSeqs \ {<<>>}, a \in {<<>>, <<"k">>} }

\* the similarities token_set_ratio may give, in hundredths
Ratios == {0, 1, 50, 99, 100}

ScoreArgs ==
  { [item |-> Item(t, a, <<"1">>), author |-> x] :
      t \in Ratios, a \in Ratios, x \in {<<>>, <<" ">>, <<"k">>, <<" ", "k">>, NULL} }

\* the score of one candidate, in ten-thousandths
CallScore ==
  Return("score", ItemScore(lib.arg.item, trim(OrEmpty(lib.arg.author))))

\* the for loop of searchISBNByTitleAuthor over a non-empty answer
CallBestCandidate ==
  Return("bestCandidate",
         BestFrom(lib.arg.items, trim(OrEmpty(lib.arg.author)), NoItem, InitialBestScore))

ResolveArgs ==
  { [title |-> t, author |-> a, items |-> x, threshold |-> h] :
      t \in {<<>>, <<"a">>}, a \in {<<>>, <<"k">>}, x \in ItemSeqs, h \in {Threshold, 7000} }

CallSearchISBNByTitleAuthor ==
  Return("searchISBNByTitleAuthor",
         searchISBNByTitleAuthor(lib.arg.title, lib.arg.author, lib.arg.items,
                                 lib.arg.threshold))

InitLib ==
  /\ uploadedFile = <<>>
  /\ Loaded
  /\ \/ Call("searchISBN", SearchISBNArgs)
     \/ Call("searchISBNAllPages", PageSeqs)
     \/ Call("searchISBNMultiRegion", MultiRegionArgs)
     \/ Call("cacheISBN", CacheISBNArgs)
     \/ Call("cacheSearch", CacheSearchArgs)
     \/ Call("makeKeys", KeyArgs)
     \/ Call("findSchoolBooks", FindSchoolBooksArgs)
     \/ Call("score", ScoreArgs)
     \/ Call("bestCandidate", BestCandidateArgs)
     \/ Call("searchISBNByTitleAuthor", ResolveArgs)

NextLib ==
  \/ CallSearchISBN
  \/ CallSearchISBNAllPages
  \/ CallSearchISBNMultiRegion
  \/ CallCacheISBN
  \/ CallCacheSearch
  \/ CallMakeKeys
  \/ CallFindSchoolBooks
  \/ CallScore
  \/ CallBestCandidate
  \/ CallSearchISBNByTitleAuthor

SpecLib == InitLib /\ [][NextLib]_vars

\* ------------------------------------------------------------------ the paging loop
\* searchISBNAllPages run one request at a time against a service that may answer
\* anything to any request: lib.ret holds the loop's locals page, allBooks (its
\* length) and result.  page and the length of allBooks are counted up to
\* PageCap and HeldCap, where they stay: the value at the cap stands for every
\* larger one.
PageCap == MaxPages + 1

HeldCap == MaxBooks

Saturated(n, cap) == IF n > cap THEN cap ELSE n

\* the answers of a service that need not be consistent from one page to the next
AnyAnswers ==
  {ThrowPage, HttpErrorPage, NotOkPage}
    \cup { OkPage(t, b) : t \in 0..(PageCap + 1),
                          b \in {<<>>, <<Book(<<"x">>)>>, <<Book(<<"x">>), Book(<<"y">>)>>} }

PagingLocals(page, allBooks, result) ==
  [page |-> page, allBooks |-> allBooks, result |-> result, threw |-> FALSE]

\* the provCode of the call: a region's code or none
ProvCodes == { <<code>> : code \in RegionCodes } \cup {NULL}

InitPaging ==
  /\ uploadedFile = <<>>
  /\ Loaded
  /\ \E provCode \in ProvCodes :
       lib = [fn |-> "searchISBNAllPages", arg |-> provCode,
              ret |-> PagingLocals(1, 0, searchISBN(<<>>, 1)), done |-> FALSE]

\* one turn of while (true): the request for lib.ret.page is answered by r
AllPagesTurn(r) ==
  LET page == lib.ret.page
      result == searchISBN(<<r>>, 1)
      pushed == Saturated(lib.ret.allBooks + Len(result.books), HeldCap)
  IN /\ lib.fn = "searchISBNAllPages"
     /\ ~lib.done
     /\ lib' =
          IF result.threw
          THEN [lib EXCEPT !.ret.result = result, !.ret.threw = TRUE, !.done = TRUE]
          ELSE IF Len(result.books) = 0
          THEN [lib EXCEPT !.ret.result = result, !.done = TRUE]
          ELSE IF LastPage(page, result.totalPages)
          THEN [lib EXCEPT !.ret.result = result, !.ret.allBooks = pushed, !.done = TRUE]
          ELSE [lib EXCEPT !.ret.result = result, !.ret.allBooks = pushed,
                           !.ret.page = Saturated(page + 1, PageCap)]
     /\ UNCHANGED <<uploadedFile, jobObj, jobs, pc, loc, cache, aladinCalls, threw, resolved>>

NextPaging == \E r \in AnyAnswers : AllPagesTurn(r)

\* every request is answered, so the loop takes its next turn
SpecPaging == InitPaging /\ [][NextPaging]_vars /\ WF_vars(NextPaging)

\* ------------------------------------------------------------------ the job loop with paging
\* The catalog search of a row taken one request at a time while the first region
\* of the list keeps answering with a non-empty page that reports more pages:
\* loc[j].paged holds the pages fetched so far, up to PageCap of them, the last
\* standing for every later one.  Read365Return is the rest of the search.
\* the answers that keep the loop going from any page: a non-empty page whose
\* totalPage is beyond the page asked for
MoreAnswers ==
  { OkPage(PageCap + 1, b) : b \in {<<Book(<<"S">>)>>, <<Book(<<"x">>)>>} }

Read365Paging(j, r) ==
  LET paged == loc[j].paged
      page == Saturated(Len(paged) + 1, PageCap)
      result == searchISBN(<<r>>, 1)
  IN /\ pc[j] = "read365"
     /\ ~result.threw
     /\ Len(result.books) # 0
     /\ ~LastPage(page, result.totalPages)
     /\ loc' = [loc EXCEPT ![j].paged =
                  IF Len(paged) < PageCap THEN Append(paged, r)
                  ELSE [paged EXCEPT ![PageCap] = r]]
     /\ UNCHANGED <<lib, uploadedFile, jobObj, jobs, pc, cache, aladinCalls, threw, resolved>>

LoopLive(j) ==
  /\ Runs(j)
  /\ \/ Loop(j, CoreResponses, CoreWorlds)
     \/ \E r \in MoreAnswers : Read365Paging(j, r)

\* batches submitted one after another; no job is deleted
NextLive ==
  \/ \E j \in JobIds : \E region \in RegionHints(j) : Quiet(j) /\ Submit(j, region)
  \/ \E j \in JobIds : LoopLive(j)

\* the steps of LoopLive(j) other than Read365Return
LoopTurn(j) ==
  /\ Runs(j)
  /\ \/ Iterate(j)
     \/ \E resp \in CoreResponses : AladinReturn(j, resp)
     \/ \E err \in LoopErrors : LoopThrow(j, err)
     \/ \E r \in MoreAnswers : Read365Paging(j, r)

\* Every call of the resolver and every request to the catalog is answered and
\* every wait ends, so a loop that can take a step takes one.  The condition is
\* stated on LoopTurn(j): it is enabled exactly when LoopLive(j) is (a loop that
\* waits for the catalog can take a paging turn), and a loop cannot take
\* Read365Return steps forever without an Iterate step between them.
SpecLive == Init /\ [][NextLive]_vars /\ \A j \in JobIds : WF_vars(LoopTurn(j))

\* ------------------------------------------------------------------ the cache on its own
\* Sequences of operations on the ResultCache singleton.  lib records the last
\* operation (fn, arg, and in ret.out what it returned) and, in ret, how many
\* operations were made and how many gets on each map since the last clear.
MaxOps == 4

CacheTitles == {<<"a">>, <<"A", " ">>, <<"b">>}

CacheAuthors == {<<"k">>}

CacheSchools == {<<"s">>, <<"S", " ">>, <<"t">>}

CacheIsbns == {<<"1">>}

CacheLog(fn, arg, out, isbnGets, searchGets) ==
  [fn |-> fn, arg |-> arg,
   ret |-> [ops |-> lib.ret.ops + 1, isbnGets |-> isbnGets, searchGets |-> searchGets,
            out |-> out],
   done |-> FALSE]

InitCache ==
  /\ uploadedFile = <<>>
  /\ Loaded
  /\ lib = [fn |-> "new", arg |-> <<>>,
            ret |-> [ops |-> 0, isbnGets |-> 0, searchGets |-> 0, out |-> <<>>],
            done |-> FALSE]

CacheFrame == UNCHANGED <<uploadedFile, jobObj, jobs, pc, loc, aladinCalls, threw, resolved>>

CacheGetISBN(title, author) ==
  LET g == getISBN(cache, title, author) IN
  /\ lib.ret.ops < MaxOps
  /\ cache' = g.cache
  /\ lib' = CacheLog("getISBN", <<title, author>>, [hit |-> g.hit, result |-> g.result],
                     lib.ret.isbnGets + 1, lib.ret.searchGets)
  /\ CacheFrame

CacheSetISBN(title, author, entry) ==
  /\ lib.ret.ops < MaxOps
  /\ cache' = setISBN(cache, title, author, entry.isbn13, entry.error)
  /\ lib' = CacheLog("setISBN", <<title, author>>, entry, lib.ret.isbnGets, lib.ret.searchGets)
  /\ CacheFrame

CacheGetSearch(school, isbn) ==
  LET g == getSearch(cache, school, isbn) IN
  /\ lib.ret.ops < MaxOps
  /\ cache' = g.cache
  /\ lib' = CacheLog("getSearch", <<school, isbn>>, [hit |-> g.hit, result |-> g.result],
                     lib.ret.isbnGets, lib.ret.searchGets + 1)
  /\ CacheFrame

CacheSetSearch(school, isbn, entry) ==
  /\ lib.ret.ops < MaxOps
  /\ cache' = setSearch(cache, school, isbn, entry.exists, entry.itemCount,
                        entry.matchedSchool, entry.error)
  /\ lib' = CacheLog("setSearch", <<school, isbn>>, entry, lib.ret.isbnGets, lib.ret.searchGets)
  /\ CacheFrame

CacheGetStats ==
  /\ lib.ret.ops < MaxOps
  /\ lib' = CacheLog("getStats", <<>>, getStats(cache), lib.ret.isbnGets, lib.ret.searchGets)
  /\ UNCHANGED cache
  /\ CacheFrame

CacheClear ==
  /\ lib.ret.ops < MaxOps
  /\ cache' = clear(cache)
  /\ lib' = CacheLog("clear", <<>>, <<>>, 0, 0)
  /\ CacheFrame

NextCache ==
  \/ \E title \in CacheTitles : \E author \in CacheAuthors : CacheGetISBN(title, author)
  \/ \E title \in CacheTitles : \E author \in CacheAuthors : \E entry \in ISBNEntries :
       CacheSetISBN(title, author, entry)
  \/ \E school \in CacheSchools : \E isbn \in CacheIsbns : CacheGetSearch(school, isbn)
  \/ \E school \in CacheSchools : \E isbn \in CacheIsbns : \E entry \in SearchEntries :
       CacheSetSearch(school, isbn, entry)
  \/ CacheGetStats
  \/ CacheClear

SpecCache == InitCache /\ [][NextCache]_vars

\* ------------------------------------------------------------------ properties
Terminal == {"completed", "failed"}

StatusRank(status) ==
  CASE status = "absent" -> 0
    [] status = "pending" -> 1
    [] status = "running" -> 2
    [] OTHER -> 3

\* C1: a job's status never moves backward (absent, pending, running, then completed
\* or failed), and once it is completed or failed it never changes again.
C1_StatusMonotone ==
  [][\A j \in JobIds :
       /\ StatusRank(jobObj'[j].status) >= StatusRank(jobObj[j].status)
       /\ jobObj[j].status \in Terminal => jobObj'[j].status = jobObj[j].status]_vars

C1_Witness ==
  \E j, k \in JobIds : jobObj[j].status = "completed" /\ jobObj[k].status = "failed"

\* C2: for every job 0 <= progress <= total in every state, and progress never
\* decreases from one state to the next.
C2_ProgressBounded ==
  [][\A j \in JobIds :
       /\ 0 <= jobObj[j].progress /\ jobObj[j].progress <= jobObj[j].total
       /\ 0 <= jobObj'[j].progress /\ jobObj'[j].progress <= jobObj'[j].total
       /\ jobObj'[j].progress >= jobObj[j].progress]_vars

C2_Witness ==
  \E j \in JobIds : jobObj[j].total = MaxRows /\ jobObj[j].progress = jobObj[j].total

\* C3: resultFile is set if and only if the status is completed.
C3_ResultFileIffCompleted ==
  \A j \in JobIds : (jobObj[j].resultFile # NULL) <=> (jobObj[j].status = "completed")

C3_Witness ==
  \E j, k \in JobIds :
    /\ jobObj[j].status = "completed" /\ jobObj[j].resultFile = <<"result_", j>>
    /\ jobObj[k].status = "failed" /\ jobObj[k].resultFile = NULL

SameBook(out, row) ==
  /\ out.school = row.school
  /\ out.title = row.title
  /\ out.author = row.author
  /\ out.publisher = row.publisher

\* C4: the outcomes of a job are in input order and append-only: the k-th outcome
\* carries the four fields of the k-th input row, a step only appends to the
\* sequence, and a completed or failed job's sequence never changes.
C4_OutcomesAppendOnly ==
  [][\A j \in JobIds :
       LET old == jobObj[j].results
           new == jobObj'[j].results
       IN /\ Len(new) >= Len(old)
          /\ SubSeq(new, 1, Len(old)) = old
          /\ Len(new) <= Len(old) + 1
          /\ jobObj[j].status \in Terminal => new = old
          /\ Len(new) <= Len(jobObj'[j].inputData)
          /\ \A k \in 1..Len(new) : SameBook(new[k], jobObj'[j].inputData[k])]_vars

C4_Witness ==
  \E j \in JobIds :
    /\ jobObj[j].status = "completed"
    /\ Len(jobObj[j].results) = MaxRows
    /\ jobObj[j].inputData[1] # jobObj[j].inputData[MaxRows]

HasAladinErrorMarker(reason) == reason # <<>> /\ reason[1] = "aladin error: "

RowKey(j, k) == makeISBNKey(jobObj[j].inputData[k].title, jobObj[j].inputData[k].author)

\* what C5 says of the rows whose own resolver call failed, and of the job
C5_FailureCaught(j) ==
  /\ \A k \in threw[j] :
       /\ k <= Len(jobObj[j].results)
       /\ jobObj[j].results[k].ISBN13 = <<>>
       /\ jobObj[j].results[k].existsMark = "X"
       /\ HasAladinErrorMarker(jobObj[j].results[k].reason)
  /\ pc[j] = "done" =>
       /\ jobObj[j].status = "completed"
       /\ jobObj[j].progress = jobObj[j].total

Rejects(j) == pc[j] \in {"start", "sleep"} /\ pc'[j] \in {"failed", "dropped"}

\* what C6 says of a job whose loop has thrown
C6_Failed(j) ==
  /\ jobObj'[j].status = "failed"
  /\ \E err \in LoopErrors : jobObj'[j].message = <<"error: ">> \o err
  /\ jobObj'[j].results = jobObj[j].results
  /\ jobObj'[j].progress = jobObj[j].progress
  /\ j \in jobs'
  /\ NextIndex(j) = 0 => jobObj'[j].progress = 0 /\ jobObj'[j].results = <<>>

CallKey(call) == makeISBNKey(call.title, call.author)

C8_SecondResolutionIdentical ==
  \A j \in JobIds :
    (loc[j].step1 = "hit" /\ loc[j].i < Len(jobObj[j].inputData)
       /\ RowKey(j, loc[j].i + 1) \in DOMAIN resolved) =>
      LET first == resolved[RowKey(j, loc[j].i + 1)] IN
      /\ loc[j].isbn13 = first.isbn13
      /\ loc[j].error = first.error
      /\ loc[j].candidateCount = first.candidateCount

\* C9: a job that was created and is no longer in the store (it was deleted) never
\* comes back: polls keep answering not-found and the listing never shows it.
C9_DeletedStaysGone ==
  [][\A j \in JobIds :
       (pc[j] # "unborn" /\ j \notin jobs) =>
         /\ j \notin jobs'
         /\ \A job \in { jobObj'[k] : k \in jobs' } : job.jobId # j]_vars

\* C10: for a row with a blank title the resolution yields no ISBN, the empty-title
\* error and candidateCount 0 (from the resolver's early return, or from the cache
\* that holds it), and no fetch is ever sent for a blank title.
C10_BlankTitleNoCall ==
  /\ \A call \in aladinCalls : call.title # <<>>
  /\ \A j \in JobIds :
       (loc[j].i < Len(jobObj[j].inputData)
          /\ jobObj[j].inputData[loc[j].i + 1].title = <<>>
          /\ loc[j].step1 # "none") =>
         /\ loc[j].step1 \in {"early", "hit"}
         /\ loc[j].isbn13 = NULL
         /\ loc[j].error = <<"empty title">>
         /\ loc[j].candidateCount = 0

C10_Witness ==
  \E j \in JobIds :
    /\ pc[j] = "sleep"
    /\ loc[j].step1 = "early"
    /\ jobObj[j].results[loc[j].i + 1].reason = <<"aladin isbn unresolved: ", "empty title">>

\* C11: searchISBNAllPages requests pages 1, 2, ... in order, requests page k only
\* after the answer to page k - 1 reported at least k pages, and, when every page
\* the service holds is non-empty and reports totalPages = T >= 1, makes at most T
\* requests (exactly 1..T if the service holds T pages or more).
C11_NoRequestPastTotalPages ==
  (lib.fn = "searchISBNAllPages" /\ lib.done) =>
    LET pages == lib.arg
        requests == lib.ret.requests
    IN /\ \A k \in 1..Len(requests) : requests[k] = k
       /\ \A k \in 2..Len(requests) : k <= pages[k - 1].totalPage
       /\ \A T \in 1..(MaxPages + 1) :
            (\A p \in 1..Len(pages) :
               pages[p].kind = "ok" /\ pages[p].totalPage = T /\ pages[p].bookList # <<>>) =>
              /\ Len(requests) <= T
              /\ Len(pages) >= T => requests = [k \in 1..T |-> k]

C11_Witness ==
  /\ lib.fn = "searchISBNAllPages" /\ lib.done
  /\ Len(lib.arg) = 3
  /\ \A p \in 1..3 : lib.arg[p] = OkPage(2, <<Book(<<"x">>)>>)
  /\ lib.ret.requests = <<1, 2>>
  /\ Len(lib.ret.books) = 2

\* the books of the regions of a list whose search succeeded, in the list's order
RECURSIVE BooksOfSucceeded(_, _)
BooksOfSucceeded(world, regions) ==
  IF regions = <<>> THEN <<>>
  ELSE LET r == searchISBNAllPages(world[Head(regions)]) IN
       (IF r.threw THEN <<>> ELSE r.books) \o BooksOfSucceeded(world, Tail(regions))

\* C12: searchISBNMultiRegion attempts every region of its list, in list order,
\* whatever regions fail; its books are exactly those of the regions whose search
\* succeeded, in list order, and totalCount is the number of books returned.
C12_FailedRegionSkipped ==
  (lib.fn = "searchISBNMultiRegion" /\ lib.done) =>
    LET regions == SearchRegions(lib.arg.primaryRegion, lib.arg.maxRegions) IN
    /\ lib.ret.attempted = regions
    /\ lib.ret.books = BooksOfSucceeded(lib.arg.world, regions)
    /\ lib.ret.totalCount = Len(lib.ret.books)

C12_Witness ==
  /\ lib.fn = "searchISBNMultiRegion" /\ lib.done
  /\ lib.arg.maxRegions = 3
  /\ lib.arg.world["B10"] = <<OkPage(1, <<Book(<<"B10">>)>>)>>
  /\ lib.arg.world["C10"] = <<OkPage(2, <<Book(<<"C10">>)>>), ThrowPage>>
  /\ lib.arg.world["D10"] = <<OkPage(1, <<Book(<<"D10">>)>>)>>
  /\ lib.ret.attempted = <<"B10", "C10", "D10">>
  /\ lib.ret.books = <<Book(<<"B10">>), Book(<<"D10">>)>>
  /\ lib.ret.totalCount = 2

\* the list C18 describes: the preferred code first if the name resolves, then the
\* other codes in canonical order, cut to maxRegions entries
ExpectedRegions(primaryRegion, maxRegions) ==
  LET code == IF Truthy(primaryRegion) THEN getProvCode(primaryRegion) ELSE NULL
      others == SelectSeq(MAJOR_REGION_CODES, LAMBDA c : <<c>> # code)
      full == IF Truthy(code) THEN code \o others ELSE others
  IN SubSeq(full, 1, IF maxRegions < Len(full) THEN maxRegions ELSE Len(full))

\* C18: for every region name (resolvable, unknown or absent) and every
\* maxRegions >= 0 the list searchISBNMultiRegion builds has no duplicates, has at
\* most maxRegions entries, and is the preferred code (if the name resolves)
\* followed by the other codes in canonical order, cut to maxRegions.
C18_RegionListWellFormed ==
  (lib.fn = "searchISBNMultiRegion" /\ lib.done) =>
    LET regions == lib.ret.attempted IN
    /\ \A a, b \in 1..Len(regions) : regions[a] = regions[b] => a = b
    /\ Len(regions) <= lib.arg.maxRegions
    /\ regions = ExpectedRegions(lib.arg.primaryRegion, lib.arg.maxRegions)

\* the outcome of the row a job loop has just committed (the loop is in its wait)
Outcome(j) == jobObj[j].results[loc[j].i + 1]

\* the distinct school names of the books findSchoolBooks matched for that row
FoundNames(j) == { loc[j].found[k].schoolName : k \in 1..Len(loc[j].found) }

\* C13: an outcome marked found has an empty reason or the ambiguity message; when
\* the catalog was searched for the row, the reason is empty iff exactly one
\* distinct school name matched, and is the ambiguity message (with the number of
\* names) when more than one matched.
C13_FoundReason ==
  \A j \in JobIds :
    (pc[j] = "sleep" /\ Outcome(j).existsMark = "O") =>
      LET reason == Outcome(j).reason
          ambiguity == reason # <<>> /\ reason[1] = "same-named schools matched: "
      IN /\ reason = <<>> \/ ambiguity
         /\ loc[j].step2 = "search" =>
              /\ (reason = <<>>) <=> (Cardinality(FoundNames(j)) = 1)
              /\ Cardinality(FoundNames(j)) > 1 =>
                   ambiguity /\ reason[2] = ToString(Cardinality(FoundNames(j)))

\* C14: an outcome with an ISBN and the not-found mark has the no-holdings reason
\* or the not-held reason of its school, with the suggestion appended iff the
\* resolution of its title had candidateCount > 1; when the catalog was searched
\* for the row, it is the no-holdings reason iff totalCount = 0 and else names
\* totalCount.
C14_NotFoundReason ==
  \A j \in JobIds :
    (pc[j] = "sleep" /\ Outcome(j).ISBN13 # <<>> /\ Outcome(j).existsMark = "X") =>
      LET reason == Outcome(j).reason
          school == Outcome(j).school
          count == resolved[RowKey(j, loc[j].i + 1)].candidateCount
          suggestion ==
            IF count > 1
            THEN <<" - ", ToString(count),
                   " versions of the title exist, enter the title more exactly">>
            ELSE <<>>
          noHoldings == reason = <<"no book registered in the major regions">>
          notHeld ==
            /\ Len(reason) = Len(school) + 3 + Len(suggestion)
            /\ SubSeq(reason, 1, Len(school) + 1)
                 = school \o <<" does not hold it (other schools hold ">>
            /\ reason[Len(school) + 3] = ")"
            /\ SubSeq(reason, Len(school) + 4, Len(reason)) = suggestion
      IN /\ noHoldings \/ notHeld
         /\ loc[j].step2 = "search" =>
              /\ noHoldings <=> (loc[j].totalCount = 0)
              /\ notHeld => reason[Len(school) + 2] = ToString(loc[j].totalCount)

\* C15: after setISBN(t, a, v), getISBN(t2, a2) returns v whenever t2, a2 equal t, a
\* after lower-casing and removing whitespace; after setSearch(s, isbn, v),
\* getSearch(s2, isbn) returns v whenever s2 equals s after the same normalization.
C15_LookupNormalized ==
  /\ (lib.fn = "cacheISBN" /\ lib.done
        /\ StripLower(lib.arg.title2) = StripLower(lib.arg.title)
        /\ StripLower(lib.arg.author2) = StripLower(lib.arg.author)) =>
       lib.ret.hit /\ lib.ret.result = lib.arg.entry
  /\ (lib.fn = "cacheSearch" /\ lib.done
        /\ StripLower(lib.arg.school2) = StripLower(lib.arg.school)) =>
       lib.ret.hit /\ lib.ret.result = lib.arg.entry

C15_Witness ==
  /\ lib.fn = "cacheISBN" /\ lib.done
  /\ lib.arg.title = <<"A", " ">> /\ lib.arg.title2 = <<"a">>
  /\ lib.arg.author = <<" ", "k">> /\ lib.arg.author2 = <<"K">>
  /\ lib.ret.hit /\ lib.ret.result.isbn13 = <<"1">>

\* one name is a substring of the other once both are stripped of whitespace and
\* lower-cased (a missing name counts as the empty name)
NamesContain(bookSchool, schoolName) ==
  LET x == StripLower(IF bookSchool = NULL THEN <<>> ELSE bookSchool)
      y == StripLower(schoolName)
  IN (\E k \in 0..(Len(y) - Len(x)) : SubSeq(y, k + 1, k + Len(x)) = x)
       \/ (\E k \in 0..(Len(x) - Len(y)) : SubSeq(x, k + 1, k + Len(y)) = y)

\* C16: findSchoolBooks returns exactly the books whose school name and the query
\* name contain one another after whitespace removal and lower-casing, in their
\* original order, and the test gives the same answer with its arguments swapped.
C16_SchoolMatchSymmetric ==
  (lib.fn = "findSchoolBooks" /\ lib.done) =>
    /\ lib.ret.found
         = SelectSeq(lib.arg.books, LAMBDA b : NamesContain(b.schoolName, lib.arg.schoolName))
    /\ \A k \in 1..Len(lib.arg.books) :
         LET name == OrEmpty(lib.arg.books[k].schoolName) IN
         /\ SchoolMatches(name, lib.arg.schoolName) = SchoolMatches(lib.arg.schoolName, name)
         /\ SchoolMatches(name, lib.arg.schoolName) = NamesContain(name, lib.arg.schoolName)

C16_Witness ==
  /\ lib.fn = "findSchoolBooks" /\ lib.done
  /\ lib.arg.schoolName = <<"b", "a">>
  /\ lib.arg.books = <<Book(<<"a", " ", "b">>), Book(<<"A", " ">>), Book(<<"b">>)>>
  /\ lib.ret.found = <<Book(<<"A", " ">>), Book(<<"b">>)>>

\* C17: a job is registered with status pending when its submission is accepted,
\* and its status becomes running only from pending.
C17_PendingBeforeRunning ==
  [][\A j \in JobIds :
       /\ (pc[j] = "unborn" /\ j \in jobs') => jobObj'[j].status = "pending"
       /\ (jobObj'[j].status = "running" /\ jobObj[j].status # "running") =>
            jobObj[j].status = "pending"]_vars

\* the score of the k-th item of a call's answer
ScoreOf(k) ==
  70 * lib.arg.items[k].titleRatio
    + (IF trim(lib.arg.author) # <<>> THEN 30 * lib.arg.items[k].authorRatio ELSE 0)

\* the first item of the answer whose score no other item exceeds
FirstBest ==
  CHOOSE k \in 1..Len(lib.arg.items) :
    /\ \A m \in 1..Len(lib.arg.items) : ScoreOf(m) <= ScoreOf(k)
    /\ \A m \in 1..(k - 1) : ScoreOf(m) < ScoreOf(k)

\* C19: the candidate selected has the highest score of the answer, and is the
\* first with that score.
C19_FirstHighestScore ==
  (lib.fn = "bestCandidate" /\ lib.done) =>
    /\ lib.ret.best = lib.arg.items[FirstBest]
    /\ lib.ret.bestScore = ScoreOf(FirstBest)

C19_Witness ==
  /\ lib.fn = "bestCandidate" /\ lib.done
  /\ lib.arg.author = <<"k">>
  /\ lib.arg.items = <<Item(70, 70, <<"1">>), Item(100, 0, <<" ", "2">>)>>
  /\ lib.ret.best = Item(70, 70, <<"1">>)
  /\ lib.ret.bestScore = 7000

\* C20: a resolution that does not throw returns an ISBN iff the answer has items,
\* the best score is >= threshold and the best item's trimmed ISBN is non-empty;
\* isbn13 is present exactly when error is absent; candidateCount is 0 without
\* items and their number otherwise; a best item at or above the threshold with a
\* blank ISBN gives the isbn-empty error whatever the other items hold.
C20_IsbnIffBestQualifies ==
  (lib.fn = "searchISBNByTitleAuthor" /\ lib.done) =>
    LET items == lib.arg.items
        some == lib.arg.title # <<>> /\ Len(items) > 0
        qualifies == some /\ ScoreOf(FirstBest) >= lib.arg.threshold
        isbn == IF some /\ items[FirstBest].isbn13 # NULL
                THEN trim(items[FirstBest].isbn13) ELSE <<>>
    IN /\ (lib.ret.isbn13 # NULL) <=> (qualifies /\ isbn # <<>>)
       /\ lib.ret.isbn13 # NULL => lib.ret.isbn13 = isbn
       /\ (lib.ret.isbn13 # NULL) <=> (lib.ret.error = NULL)
       /\ lib.ret.candidateCount = IF some THEN Len(items) ELSE 0
       /\ (qualifies /\ isbn = <<>>) => lib.ret.error = <<"isbn empty">>

C20_Witness ==
  /\ lib.fn = "searchISBNByTitleAuthor" /\ lib.done
  /\ lib.arg.title = <<"a">> /\ lib.arg.author = <<"k">> /\ lib.arg.threshold = 7000
  /\ lib.arg.items = <<Item(100, 0, <<" ">>), Item(70, 70, <<"1">>)>>
  /\ lib.ret = [isbn13 |-> NULL, error |-> <<"isbn empty">>, candidateCount |-> 2]

\* C21: POST returns its response in the synchronous run that takes
\* processVerification to its first await.  At that return the job is in the store
\* and is neither completed nor failed (a rejection of that first run is handled
\* only after the return, so the state at the return is the one before the handler).
C21_RegisteredAtReturn ==
  [][\A j \in JobIds :
       (pc[j] = "start" /\ pc'[j] # "start") =>
         IF pc'[j] \in {"failed", "dropped"}
         THEN j \in jobs /\ jobObj[j].status = "running"
         ELSE /\ j \in jobs'
              /\ GetStatusResponse(j)'.code = 200
              /\ jobObj'[j].status = "running"
              /\ pc'[j] # "done"]_vars

C21_Witness ==
  \E j \in JobIds :
    /\ pc[j] = "aladin" /\ loc[j].i = 0
    /\ j \in jobs /\ jobObj[j].status = "running" /\ jobObj[j].progress = 0

\* C22: a download is served only for a stored, completed job and then carries
\* that job's outcomes; for an id not in the store it answers 404, for a stored job
\* that is running or failed 400, and for every stored completed job the download
\* named by its resultFile answers 200 with the job's outcomes.
C22_DownloadOnlyCompleted ==
  /\ \A filename \in Filenames :
       LET id == filename[Len(filename)]
           r == DownloadResponse(filename)
       IN /\ id \notin jobs => r.code = 404
          /\ (id \in jobs /\ jobObj[id].status \in {"running", "failed"}) => r.code = 400
          /\ r.code = 200 =>
               id \in jobs /\ jobObj[id].status = "completed" /\ r.rows = jobObj[id].results
  /\ \A j \in jobs :
       jobObj[j].status = "completed" =>
         DownloadResponse(jobObj[j].resultFile) = [code |-> 200, rows |-> jobObj[j].results]

C22_Witness ==
  \E j, k \in JobIds :
    /\ j \in jobs /\ jobObj[j].status = "completed"
    /\ DownloadResponse(jobObj[j].resultFile).code = 200
    /\ Len(DownloadResponse(jobObj[j].resultFile).rows) = MaxRows
    /\ k \in jobs /\ jobObj[k].status = "running"
    /\ DownloadResponse(<<"result_", k>>).code = 400

\* C23: searchISBN raises exactly when the request fails at transport level; for
\* every answer of the service that is not a success (a non-2xx status, a status
\* field other than OK) it returns the empty result: totalPages 0 and no books.
C23_RaisesOnlyOnTransportFailure ==
  (lib.fn = "searchISBN" /\ lib.done) =>
    LET r == PageOf(lib.arg.pages, lib.arg.page) IN
    /\ lib.ret.threw <=> r.kind = "throw"
    /\ r.kind \in {"http", "notok"} =>
         ~lib.ret.threw /\ lib.ret.totalPages = 0 /\ lib.ret.books = <<>>

\* the query author is empty once it is defaulted and trimmed
QueryAuthorEmpty == lib.arg.author = NULL \/ \A k \in 1..Len(lib.arg.author) : lib.arg.author[k] = " "

\* C24: the score of a candidate is 0.7 times its title similarity plus 0.3 times
\* its author similarity, the author term being 0 when the query author is empty;
\* it lies in [0,1] and is at most 0.7 when the query author is empty (scores in
\* ten-thousandths, similarities in hundredths).
C24_ScoreWeighted ==
  (lib.fn = "score" /\ lib.done) =>
    /\ lib.ret = 70 * lib.arg.item.titleRatio
                   + (IF QueryAuthorEmpty THEN 0 ELSE 30 * lib.arg.item.authorRatio)
    /\ lib.ret \in 0..10000
    /\ QueryAuthorEmpty => lib.ret <= 7000

C24_Witness ==
  /\ lib.fn = "score" /\ lib.done
  /\ lib.arg.author = <<>>
  /\ lib.arg.item.titleRatio = 100 /\ lib.arg.item.authorRatio = 100
  /\ lib.ret = 7000

\* C25: once the holding lookup of a row with an ISBN has produced its outcome, the
\* holding cache has an entry under (school, isbn) whose exists flag is true
\* exactly when the outcome is marked found and whose matched school is the one the
\* outcome shows.
C25_HoldingEntryAgrees ==
  \A j \in JobIds :
    (pc[j] = "sleep" /\ loc[j].step2 \in {"hit", "search"}) =>
      LET out == Outcome(j)
          key == makeSearchKey(out.school, out.ISBN13)
      IN /\ key \in DOMAIN cache.searchCache
         /\ cache.searchCache[key].exists <=> (out.existsMark = MarkFound)
         /\ out.searchSchool =
              (IF Truthy(cache.searchCache[key].matchedSchool)
               THEN cache.searchCache[key].matchedSchool ELSE out.school)

\* C26: two rows of one job with the same school, title and author get outcomes
\* with the same ISBN, the same mark and the same reason.
C26_SameRowSameOutcome ==
  \A j \in JobIds :
    \A a, b \in 1..Len(jobObj[j].results) :
      jobObj[j].inputData[a] = jobObj[j].inputData[b] =>
        /\ jobObj[j].results[a].ISBN13 = jobObj[j].results[b].ISBN13
        /\ jobObj[j].results[a].existsMark = jobObj[j].results[b].existsMark
        /\ jobObj[j].results[a].reason = jobObj[j].results[b].reason

\* C27: what a poller can read of a job has as many outcomes as its progress says;
\* and a completed job has progress = total = number of outcomes = number of rows.
C27_OutcomesEqualProgress ==
  \A j \in JobIds :
    /\ j \in jobs => Len(getJob(j).results) = GetStatusResponse(j).body.progress
    /\ jobObj[j].status = "completed" =>
         /\ jobObj[j].progress = jobObj[j].total
         /\ jobObj[j].total = Len(jobObj[j].results)
         /\ Len(jobObj[j].results) = Len(jobObj[j].inputData)

C27_Witness ==
  \E j, k \in JobIds :
    /\ j \in jobs /\ jobObj[j].status = "completed" /\ jobObj[j].progress = MaxRows
    /\ k \in jobs /\ jobObj[k].status = "running"
    /\ jobObj[k].progress = 1 /\ Len(jobObj[k].results) = 1 /\ jobObj[k].total = MaxRows

\* C28: findSchoolBooks reports as matchedSchool the school name, as the catalog
\* gave it (a missing name read as the empty one), of the first book of found; and
\* matchedSchool is null exactly when found is empty.
C28_FirstMatchedName ==
  (lib.fn = "findSchoolBooks" /\ lib.done) =>
    /\ (lib.ret.matchedSchool = NULL) <=> (lib.ret.found = <<>>)
    /\ lib.ret.found # <<>> =>
         lib.ret.matchedSchool = OrEmpty(lib.ret.found[1].schoolName)

\* C29: a row whose ISBN is not resolved is never looked up in the catalog; its
\* outcome is marked not found, has an empty ISBN field and a non-empty reason that
\* ends with the resolution error.  So every outcome marked found has an ISBN.
C29_UnresolvedNotSearched ==
  \A j \in JobIds :
    /\ pc[j] = "read365" => Truthy(loc[j].isbn13)
    /\ (pc[j] = "sleep" /\ ~Truthy(loc[j].isbn13)) =>
         LET reason == Outcome(j).reason
             error == loc[j].error
         IN /\ loc[j].step2 = "none"
            /\ Outcome(j).existsMark = MarkNotFound
            /\ Outcome(j).ISBN13 = <<>>
            /\ reason # <<>>
            /\ Truthy(error) /\ Len(error) <= Len(reason)
            /\ SubSeq(reason, Len(reason) - Len(error) + 1, Len(reason)) = error
    /\ \A k \in 1..Len(jobObj[j].results) :
         jobObj[j].results[k].existsMark = MarkFound => jobObj[j].results[k].ISBN13 # <<>>

C29_Witness ==
  \E j \in JobIds :
    /\ pc[j] = "sleep" /\ loc[j].i = 0
    /\ loc[j].step1 = "miss" /\ ~Truthy(loc[j].isbn13) /\ loc[j].step2 = "none"
    /\ loc[j].error = ErrNoResults
    /\ Outcome(j).existsMark = MarkNotFound
    /\ Outcome(j).ISBN13 = <<>>
    /\ Outcome(j).reason = UnresolvedReason(ErrNoResults)

\* C30: with two job loops interleaved, the resolver is still fetched at most once
\* per normalized (title, author) key: no key is fetched by both loops, and none
\* twice by one.
C30_OneCallPerKeyInterleaved ==
  \A call \in aladinCalls :
    Cardinality({ other \in aladinCalls : CallKey(other) = CallKey(call) }) = 1

\* the fields of a job a poller is shown, and its outcomes
JobFields(j) ==
  <<jobObj[j].status, jobObj[j].progress, jobObj[j].total, jobObj[j].message,
    jobObj[j].resultFile, jobObj[j].results>>

\* C31: a step that is not a step of job j's own submission or loop (a poll, the
\* listing, a download, a delete, another submission, a step of another job's loop)
\* leaves j's status, progress, total, message, resultFile and outcomes unchanged;
\* and a job leaves the store only by DELETE on its id.
C31_OnlyOwnLoopWrites ==
  [][\A j \in JobIds :
       /\ (pc'[j] = pc[j] /\ loc'[j] = loc[j]) => JobFields(j)' = JobFields(j)
       /\ (j \in jobs /\ j \notin jobs') => DeleteStatus(j)]_vars

C31_Witness ==
  \E j, k \in JobIds :
    /\ j # k /\ {j, k} \subseteq jobs
    /\ pc[j] = "sleep" /\ jobObj[j].progress = 1 /\ Len(jobObj[j].results) = 1
    /\ pc[k] = "sleep" /\ jobObj[k].progress = 1 /\ Len(jobObj[k].results) = 1

\* C32: searchISBNAllPages returns (or raises) whatever the service answers, also
\* when the totalPages it reports changes from page to page and no page is empty.
C32_AllPagesTerminates == <>(lib.fn = "searchISBNAllPages" /\ lib.done)

\* C33: no job stays running forever: a job that was submitted is not running, so
\* is completed or failed, again and again.
C33_EventuallyTerminal ==
  \A j \in JobIds : []<>(jobObj[j].status # "running")

\* C34: when the catalog was searched for a row and the search of every region
\* failed, the holding cache does not hold a not-held entry without an error for
\* the row, and the outcome's reason is not the no-holdings reason.
C34_FailureNotCachedAsNegative ==
  \A j \in JobIds :
    (pc[j] = "sleep" /\ loc[j].step2 = "search" /\ loc[j].succeeded = 0) =>
      LET key == makeSearchKey(Outcome(j).school, Outcome(j).ISBN13) IN
      /\ key \in DOMAIN cache.searchCache =>
           cache.searchCache[key].exists \/ Truthy(cache.searchCache[key].error)
      /\ Outcome(j).reason # NoHoldingsReason

\* C35: the list of regions searched for a row of a job that was submitted with a
\* region hint (so that its region is not the default one) starts with the code of
\* that region.
C35_HintedRegionFirst ==
  \A j \in JobIds :
    (/\ pc[j] = "sleep" /\ loc[j].step2 = "search"
     /\ jobObj[j].region # DefaultRegion
     /\ Truthy(getProvCode(jobObj[j].region))) =>
      /\ loc[j].attempted # <<>>
      /\ <<loc[j].attempted[1]>> = getProvCode(jobObj[j].region)

\* C36: after any sequence of cache operations getStats reports as sizes the
\* numbers of entries of the two maps and, for each map, hits + misses equal to the
\* number of gets on it since the last clear; and right after clear both maps are
\* empty and every counter is 0.
C36_StatsAccurate ==
  /\ getStats(cache).isbnCacheSize = Cardinality(DOMAIN cache.isbnCache)
  /\ getStats(cache).searchCacheSize = Cardinality(DOMAIN cache.searchCache)
  /\ getStats(cache).isbnHits + getStats(cache).isbnMisses = lib.ret.isbnGets
  /\ getStats(cache).searchHits + getStats(cache).searchMisses = lib.ret.searchGets
  /\ lib.fn = "getStats" => lib.ret.out = getStats(cache)
  /\ lib.fn = "clear" =>
       /\ DOMAIN cache.isbnCache = {} /\ DOMAIN cache.searchCache = {}
       /\ \A f \in DOMAIN cache.stats : cache.stats[f] = 0

C36_Witness ==
  /\ lib.fn = "getStats"
  /\ lib.ret.out.isbnHits = 1 /\ lib.ret.out.isbnMisses = 1 /\ lib.ret.out.isbnCacheSize = 1
  /\ lib.ret.isbnGets = 2

\* a step on a map that sets key to entry: every other entry is kept as it was
SetsOnly(before, after, key, entry) ==
  /\ DOMAIN after = DOMAIN before \cup {key}
  /\ after[key] = entry
  /\ \A k \in DOMAIN before : k # key => after[k] = before[k]

C38_KeysInjective ==
  (lib.fn = "makeKeys" /\ lib.done) =>
    /\ lib.ret.isbn1 = lib.ret.isbn2 =>
         /\ StripLower(lib.arg.x1) = StripLower(lib.arg.x2)
         /\ StripLower(lib.arg.y1) = StripLower(lib.arg.y2)
    /\ lib.ret.search1 = lib.ret.search2 =>
         /\ StripLower(lib.arg.x1) = StripLower(lib.arg.x2)
         /\ lib.arg.y1 = lib.arg.y2

====
